---- MODULE Spec2Model ----
(***************************************************************************)
(* sessio: Pomodoro timer (src/timer.rs), music player                     *)
(* (src/track_list.rs) and the event loop that coordinates them            *)
(* (src/main.rs).  Time is counted in seconds, calendar dates in days.     *)
(***************************************************************************)
EXTENDS Integers, Sequences, FiniteSets

VARIABLES
    pc,             \* position of the control thread in run()'s loop
    config,         \* struct Config (the fields the loop reads)
    file,           \* the content of todos.md
    now,            \* std::time::Instant::now(), seconds
    today,          \* chrono::Local::now().date_naive(), day number
    timer,          \* struct Timer
    todo,           \* struct Todo
    app,            \* struct App
    track_list,     \* struct TrackList (control-thread fields)
    sink,           \* the rodio Sink behind track_list.sink
    decoding,       \* decode threads spawned by play_track, not yet finished
    disk,           \* the music folder, the alarm file, the audio device
    was_alarm_active_last_update,   \* AppState field
    volume_call,    \* volume call made by the last alarm reconciliation
    last_volume_call,   \* most recent volume call ever made
    credit_calls,   \* number of add_time_to_task_by_index calls so far
    credit_due,     \* number of Work completions with a task selected so far
    last_credit,    \* arguments of the last add_time_to_task_by_index call
    play_status,    \* what became of the audio of the latest play_track
    last_advance,   \* the auto-advance made by the last pass of the loop, if any
    alarm_seen,     \* what update_alarm_state returned in the last pass
    completions,    \* per date and phase, the complete_phase runs so far
    alarm_signal    \* what the thread of the latest play_alarm emits

vars == << pc, config, file, now, today, timer, todo, app, track_list, sink, decoding, disk,
           was_alarm_active_last_update, volume_call, last_volume_call,
           credit_calls, credit_due, last_credit, play_status, last_advance,
           alarm_seen, completions, alarm_signal >>

timerEnv == << now, today >>
musicVars == << track_list, sink, decoding, disk, play_status, last_advance >>
creditVars == << credit_calls, credit_due, last_credit >>
volumeVars == << was_alarm_active_last_update, volume_call, last_volume_call,
                alarm_seen >>

(***************************************************************************)
(* Bounds of the model                                                     *)
(***************************************************************************)
WorkMinutes == 2
ShortBreakMinutes == 1
LongBreakMinutes == 3
MaxInterval == 4
AlarmDurationSeconds == 120
TimeStep == 60
MaxNow == 240
MaxDate == 2
MaxPomodoros == 4
MaxHistoryLen == 2
MaxHistoryWork == 1
MaxItems == 2
MaxTracks == 2
MaxDecoding == 1
MaxRemovals == 1
MaxBlocks == 3

(***************************************************************************)
(* Option<T>                                                               *)
(***************************************************************************)
None == << >>
Some(x) == << x >>
IsSome(o) == o # << >>
Unwrap(o) == o[1]

SecsPerMinute == 60

Phases == {"Work", "ShortBreak", "LongBreak"}
TimerStates == {"Stopped", "Running", "Paused"}
Dates == 1..MaxDate
TaskNames == {"t1", "t2"}

(***************************************************************************)
(* PomodoroSession and the daily session list                              *)
(***************************************************************************)
NewSession(d) ==
    [date |-> d, work_sessions |-> 0, total_work_minutes |-> 0,
     break_sessions |-> 0, total_break_minutes |-> 0,
     tasks_worked_on |-> << >>]

HasDate(ss, d) == \E i \in 1..Len(ss) : ss[i].date = d

\* iter().find(|s| s.date == d): the first entry of that date
FindDate(ss, d) ==
    CHOOSE i \in 1..Len(ss) :
        /\ ss[i].date = d
        /\ \A j \in 1..(i - 1) : ss[j].date # d

get_today_session(ss) ==
    IF HasDate(ss, today) THEN ss ELSE Append(ss, NewSession(today))

Contains(s, x) == \E i \in 1..Len(s) : s[i] = x

(***************************************************************************)
(* Timer                                                                   *)
(***************************************************************************)
TimerNew(N) ==
    [state |-> "Stopped",
     phase |-> "Work",
     pomodoro_count |-> 0,
     time_remaining |-> WorkMinutes * SecsPerMinute,
     last_tick |-> None,
     selected_todo_index |-> None,
     work_completed_flag |-> FALSE,
     work_duration |-> WorkMinutes * SecsPerMinute,
     short_break_duration |-> ShortBreakMinutes * SecsPerMinute,
     long_break_duration |-> LongBreakMinutes * SecsPerMinute,
     long_break_interval |-> N,
     daily_sessions |-> << >>,
     current_session_start |-> None,
     alarm_duration_seconds |-> AlarmDurationSeconds,
     alarm_active |-> FALSE,
     alarm_end_time |-> None]

\* the thread play_alarm spawns: the sound file if it is found, opens and
\* decodes, else the terminal bell; both inside the branch in which the
\* output stream and the sink could be opened
AlarmFiles == {"absent", "unreadable", "undecodable", "ok"}

alarm_thread(d) ==
    IF d.audio_device
    THEN IF d.alarm_file = "ok" THEN "sound" ELSE "bell"
    ELSE "none"

play_alarm(t) ==
    [t EXCEPT !.alarm_active = TRUE,
              !.alarm_end_time = Some(now + t.alarm_duration_seconds)]

PhaseDuration(t, p) ==
    CASE p = "Work" -> t.work_duration
      [] p = "ShortBreak" -> t.short_break_duration
      [] p = "LongBreak" -> t.long_break_duration

next_break_before_increment(t, count) ==
    IF t.pomodoro_count % t.long_break_interval = 0
    THEN "LongBreak" ELSE "ShortBreak"

next_break(t, count) ==
    IF count % t.long_break_interval = 0 THEN "LongBreak" ELSE "ShortBreak"

complete_work(t) ==
    LET work_minutes == t.work_duration \div SecsPerMinute
        ss == get_today_session(t.daily_sessions)
        i == FindDate(ss, today)
        count == t.pomodoro_count + 1
        np == next_break(t, count)
    IN  [t EXCEPT
            !.daily_sessions =
                [ss EXCEPT ![i].work_sessions = @ + 1,
                           ![i].total_work_minutes = @ + work_minutes],
            !.work_completed_flag =
                IF IsSome(t.selected_todo_index) THEN TRUE ELSE @,
            !.pomodoro_count = count,
            !.current_session_start = None,
            !.phase = np,
            !.time_remaining = PhaseDuration(t, np)]

complete_break_short_minutes(t) ==
    LET break_minutes == t.short_break_duration \div SecsPerMinute
        ss == get_today_session(t.daily_sessions)
        i == FindDate(ss, today)
    IN  [t EXCEPT
            !.daily_sessions =
                [ss EXCEPT ![i].break_sessions = @ + 1,
                           ![i].total_break_minutes = @ + break_minutes],
            !.phase = "Work",
            !.time_remaining = t.work_duration]

complete_break(t) ==
    LET break_minutes == PhaseDuration(t, t.phase) \div SecsPerMinute
        ss == get_today_session(t.daily_sessions)
        i == FindDate(ss, today)
    IN  [t EXCEPT
            !.daily_sessions =
                [ss EXCEPT ![i].break_sessions = @ + 1,
                           ![i].total_break_minutes = @ + break_minutes],
            !.phase = "Work",
            !.time_remaining = t.work_duration]

complete_phase_keeps_state(t) ==
    LET a == play_alarm(t)
        b == IF a.phase = "Work" THEN complete_work(a) ELSE complete_break(a)
    IN  [b EXCEPT !.last_tick = None]

complete_phase(t) ==
    LET a == play_alarm(t)
        b == IF a.phase = "Work" THEN complete_work(a) ELSE complete_break(a)
    IN  [b EXCEPT !.state = "Stopped", !.last_tick = None]

update_assigns_elapsed(t) ==
    IF t.state # "Running" THEN t
    ELSE LET t1 == IF IsSome(t.last_tick)
                   THEN LET elapsed == now - Unwrap(t.last_tick)
                        IN  IF elapsed >= t.time_remaining
                            THEN complete_phase([t EXCEPT !.time_remaining = 0])
                            ELSE [t EXCEPT !.time_remaining = elapsed]
                   ELSE t
         IN  [t1 EXCEPT !.last_tick = Some(now)]

update(t) ==
    IF t.state # "Running" THEN t
    ELSE LET t1 == IF IsSome(t.last_tick)
                   THEN LET elapsed == now - Unwrap(t.last_tick)
                        IN  IF elapsed >= t.time_remaining
                            THEN complete_phase([t EXCEPT !.time_remaining = 0])
                            ELSE [t EXCEPT !.time_remaining = @ - elapsed]
                   ELSE t
         IN  [t1 EXCEPT !.last_tick = Some(now)]

start_opens_session(t) ==
    IF t.state \in {"Stopped", "Paused"}
    THEN [t EXCEPT !.state = "Running",
                   !.last_tick = Some(now),
                   !.daily_sessions = get_today_session(@),
                   !.current_session_start =
                       IF t.phase = "Work" /\ ~IsSome(@) THEN Some(today) ELSE @]
    ELSE [t EXCEPT !.state = "Paused", !.last_tick = None]

start_keeps_last_tick(t) ==
    IF t.state \in {"Stopped", "Paused"}
    THEN [t EXCEPT !.state = "Running",
                   !.last_tick = IF IsSome(@) THEN @ ELSE Some(now),
                   !.current_session_start =
                       IF t.phase = "Work" /\ ~IsSome(@) THEN Some(today) ELSE @]
    ELSE [t EXCEPT !.state = "Paused"]

start(t) ==
    IF t.state \in {"Stopped", "Paused"}
    THEN [t EXCEPT !.state = "Running",
                   !.last_tick = Some(now),
                   !.current_session_start =
                       IF t.phase = "Work" /\ ~IsSome(@) THEN Some(today) ELSE @]
    ELSE [t EXCEPT !.state = "Paused", !.last_tick = None]

\* Timer::stop (stop names TrackList::stop below)
stop_timer(t) == [t EXCEPT !.state = "Stopped", !.last_tick = None]

reset_cancels_alarm(t) ==
    [t EXCEPT !.state = "Stopped", !.last_tick = None,
              !.time_remaining = PhaseDuration(t, t.phase),
              !.alarm_active = FALSE, !.alarm_end_time = None]

reset_clears_selection(t) ==
    [t EXCEPT !.state = "Stopped", !.last_tick = None,
              !.time_remaining = PhaseDuration(t, t.phase),
              !.selected_todo_index = None,
              !.work_completed_flag = FALSE]

reset_restarts_cycle(t) ==
    [t EXCEPT !.state = "Stopped", !.last_tick = None,
              !.phase = "Work",
              !.time_remaining = t.work_duration]

reset(t) ==
    [t EXCEPT !.state = "Stopped", !.last_tick = None,
              !.time_remaining = PhaseDuration(t, t.phase)]

skip_phase_without_alarm(t) ==
    LET b == IF t.phase = "Work" THEN complete_work(t) ELSE complete_break(t)
    IN  [b EXCEPT !.state = "Stopped", !.last_tick = None]

skip_phase(t) == complete_phase(t)

toggle_start_pause(t) == start(t)

set_selected_todo(t, index) == [t EXCEPT !.selected_todo_index = index]

set_selected_todo_with_task_name(t, index, task_name) ==
    LET t1 == [t EXCEPT !.selected_todo_index = index]
    IN  IF IsSome(task_name)
        THEN LET ss == get_today_session(t1.daily_sessions)
                 i == FindDate(ss, today)
                 name == Unwrap(task_name)
             IN  [t1 EXCEPT !.daily_sessions =
                     IF Contains(ss[i].tasks_worked_on, name) THEN ss
                     ELSE [ss EXCEPT ![i].tasks_worked_on = Append(@, name)]]
        ELSE t1

get_work_session_minutes(t) == t.work_duration \div SecsPerMinute

work_phase_just_completed(t) ==
    t.work_completed_flag /\ IsSome(t.selected_todo_index)

clear_work_completed_flag(t) == [t EXCEPT !.work_completed_flag = FALSE]

load_daily_sessions_keeps_count(t, sessions) ==
    [t EXCEPT !.daily_sessions = sessions]

load_daily_sessions(t, sessions) ==
    [t EXCEPT !.daily_sessions = sessions,
              !.pomodoro_count =
                  IF HasDate(sessions, today)
                  THEN sessions[FindDate(sessions, today)].work_sessions
                  ELSE @]

alarm_state_result_at_end(t) ==
    /\ t.alarm_active
    /\ IsSome(t.alarm_end_time)
    /\ ~(now > Unwrap(t.alarm_end_time))

\* the value update_alarm_state returns
alarm_state_result(t) ==
    /\ t.alarm_active
    /\ IsSome(t.alarm_end_time)
    /\ ~(now >= Unwrap(t.alarm_end_time))

update_alarm_state_keeps_alarm(t) == t

\* the Timer that update_alarm_state leaves behind
update_alarm_state(t) ==
    IF t.alarm_active /\ IsSome(t.alarm_end_time) /\ now >= Unwrap(t.alarm_end_time)
    THEN [t EXCEPT !.alarm_active = FALSE, !.alarm_end_time = None]
    ELSE t

(***************************************************************************)
(* Todo                                                                    *)
(***************************************************************************)
TodoItemNew(task) == [task |-> task, focused_time |-> 0, timeline |-> << >>]

get_selected_task(td) ==
    IF td.selected_index < Len(td.items)
    THEN Some(td.items[td.selected_index + 1]) ELSE None

todo_move_selection_up(td) ==
    IF Len(td.items) # 0 /\ td.selected_index > 0
    THEN [td EXCEPT !.selected_index = @ - 1] ELSE td

todo_move_selection_down(td) ==
    IF Len(td.items) # 0 /\ td.selected_index < Len(td.items) - 1
    THEN [td EXCEPT !.selected_index = @ + 1] ELSE td

RemoveAt(s, i) == SubSeq(s, 1, i - 1) \o SubSeq(s, i + 1, Len(s))

delete_selected_task(td) ==
    IF td.selected_index < Len(td.items)
    THEN LET items == RemoveAt(td.items, td.selected_index + 1)
         IN  [td EXCEPT !.items = items,
                        !.selected_index =
                            IF @ >= Len(items) /\ Len(items) # 0
                            THEN Len(items) - 1
                            ELSE IF Len(items) = 0 THEN 0 ELSE @]
    ELSE td

\* timeline entries are (date, minutes); the wall-clock timestamp is left out
add_time_to_timeline(tl, minutes) ==
    IF \E k \in 1..Len(tl) : tl[k].date = today
    THEN [k \in 1..Len(tl) |->
            IF tl[k].date = today
               /\ \A j \in 1..(k - 1) : tl[j].date # today
            THEN [tl[k] EXCEPT !.minutes = @ + minutes] ELSE tl[k]]
    ELSE Append(tl, [date |-> today, minutes |-> minutes])

add_time_to_task_by_index(td, index, minutes) ==
    IF index < Len(td.items)
    THEN [td EXCEPT !.items[index + 1].focused_time = @ + minutes,
                    !.items[index + 1].timeline = add_time_to_timeline(@, minutes)]
    ELSE td

save_pomodoro_sessions(td, sessions) == [td EXCEPT !.pomodoro_sessions = sessions]

(***************************************************************************)
(* todos.md.  The file is the sequence of its lines and a line is the      *)
(* sequence of its characters; each fixed text of the format ("### ",      *)
(* "- Work sessions: ", ...) counts as one character.  The lines of the    *)
(* todo items are left out: the file holds the heading and the Pomodoro    *)
(* section.                                                                *)
(***************************************************************************)
Digits == << "0", "1", "2", "3", "4", "5", "6", "7", "8", "9" >>

IsDigit(c) == \E k \in 1..Len(Digits) : Digits[k] = c

DigitValue(c) == (CHOOSE k \in 1..Len(Digits) : Digits[k] = c) - 1

\* format!("{}", n) for a u32
RECURSIVE format_u32(_)
format_u32(n) ==
    IF n < Len(Digits) THEN << Digits[n + 1] >>
    ELSE format_u32(n \div Len(Digits)) \o << Digits[(n % Len(Digits)) + 1] >>

RECURSIVE DecimalValue(_)
DecimalValue(s) ==
    IF s = << >> THEN 0
    ELSE DecimalValue(SubSeq(s, 1, Len(s) - 1)) * Len(Digits)
             + DigitValue(s[Len(s)])

\* str::parse::<u32>
parse_u32(s) ==
    IF s # << >> /\ \A k \in 1..Len(s) : IsDigit(s[k])
    THEN Some(DecimalValue(s)) ELSE None

\* date.format("%Y-%m-%d"); the dates of the model are days of one month
MonthText == "2024-01-"

format_date(d) ==
    << MonthText, Digits[(d \div Len(Digits)) + 1], Digits[(d % Len(Digits)) + 1] >>

\* NaiveDate::parse_from_str(s, "%Y-%m-%d")
parse_from_str(s) ==
    IF /\ Len(s) = Len(format_date(1))
       /\ s[1] = MonthText
       /\ \A k \in 2..Len(s) : IsDigit(s[k])
       /\ DecimalValue(SubSeq(s, 2, Len(s))) >= 1
    THEN Some(DecimalValue(SubSeq(s, 2, Len(s)))) ELSE None

starts_with(line, prefix) ==
    /\ Len(line) >= Len(prefix)
    /\ SubSeq(line, 1, Len(prefix)) = prefix

\* &line[n..]
SkipChars(line, n) == SubSeq(line, n + 1, Len(line))

\* split_whitespace().next()
split_whitespace_next(s) ==
    LET word == { k \in 1..Len(s) : s[k] # " " }
    IN  IF word = {} THEN None
        ELSE LET first == CHOOSE k \in word : \A j \in word : k <= j
                 last == CHOOSE k \in first..Len(s) :
                            /\ \A j \in first..k : j \in word
                            /\ k = Len(s) \/ (k + 1) \notin word
             IN  Some(SubSeq(s, first, last))

\* the characters of a task name
LongTaskName == "Tasks worked on: t3"

task_chars(name) ==
    IF name = LongTaskName THEN << "Tasks worked on:", " ", "t3" >>
    ELSE << name >>

\* .to_string() of the characters of a line
chars_to_string(s) ==
    IF s = << "Tasks worked on:", " ", "t3" >> THEN LongTaskName
    ELSE IF Len(s) = 1 THEN s[1] ELSE "?"

RECURSIVE Concat(_)
Concat(ss) == IF ss = << >> THEN << >> ELSE Head(ss) \o Concat(Tail(ss))

\* the lines save_to_file writes for one PomodoroSession
session_lines(s) ==
    << << "### " >> \o format_date(s.date),
       << "- Work sessions: " >> \o format_u32(s.work_sessions),
       << "- Total work time: " >> \o format_u32(s.total_work_minutes)
           \o << " ", "minutes" >>,
       << "- Break sessions: " >> \o format_u32(s.break_sessions),
       << "- Total break time: " >> \o format_u32(s.total_break_minutes)
           \o << " ", "minutes" >> >>
    \o (IF s.tasks_worked_on # << >>
        THEN << << "- ", "Tasks worked on:" >> >>
             \o [k \in 1..Len(s.tasks_worked_on) |->
                    << "  - " >> \o task_chars(s.tasks_worked_on[k])]
        ELSE << >>)
    \o << << >> >>

\* the content save_to_file writes
save_to_file(td) ==
    << << "# TODO List" >>, << >> >>
    \o (IF td.pomodoro_sessions # << >>
        THEN << << >>, << "## Pomodoro Sessions" >>, << >> >>
             \o Concat([k \in 1..Len(td.pomodoro_sessions) |->
                           session_lines(td.pomodoro_sessions[k])])
        ELSE << >>)

\* one pass of load_from_file's loop; st is (in_pomodoro_section,
\* current_session, pomodoro_sessions)
load_line(st, line) ==
    IF line = << "## Pomodoro Sessions" >>
    THEN [st EXCEPT !.in_pomodoro_section = TRUE]
    ELSE IF ~st.in_pomodoro_section THEN st
    ELSE IF starts_with(line, << "### " >>)
    THEN LET date == parse_from_str(SkipChars(line, 1))
         IN  [st EXCEPT
                !.pomodoro_sessions =
                    IF IsSome(st.current_session)
                    THEN Append(@, Unwrap(st.current_session)) ELSE @,
                !.current_session =
                    IF IsSome(date) THEN Some(NewSession(Unwrap(date)))
                    ELSE None]
    ELSE IF IsSome(st.current_session)
    THEN LET count == parse_u32(SkipChars(line, 1))
             minutes_str == split_whitespace_next(SkipChars(line, 1))
             minutes == IF IsSome(minutes_str)
                        THEN parse_u32(Unwrap(minutes_str)) ELSE None
         IN  IF starts_with(line, << "- Work sessions: " >>)
             THEN IF IsSome(count)
                  THEN [st EXCEPT !.current_session[1].work_sessions =
                                      Unwrap(count)]
                  ELSE st
             ELSE IF starts_with(line, << "- Total work time: " >>)
             THEN IF IsSome(minutes)
                  THEN [st EXCEPT !.current_session[1].total_work_minutes =
                                      Unwrap(minutes)]
                  ELSE st
             ELSE IF starts_with(line, << "- Break sessions: " >>)
             THEN IF IsSome(count)
                  THEN [st EXCEPT !.current_session[1].break_sessions =
                                      Unwrap(count)]
                  ELSE st
             ELSE IF starts_with(line, << "- Total break time: " >>)
             THEN IF IsSome(minutes)
                  THEN [st EXCEPT !.current_session[1].total_break_minutes =
                                      Unwrap(minutes)]
                  ELSE st
             ELSE IF /\ starts_with(line, << "  - " >>)
                     /\ ~starts_with(line, << "  - ", "Tasks worked on:" >>)
             THEN [st EXCEPT !.current_session[1].tasks_worked_on =
                                 Append(@, chars_to_string(SkipChars(line, 1)))]
             ELSE st
    ELSE st

RECURSIVE load_lines(_, _)
load_lines(st, lines) ==
    IF lines = << >> THEN st
    ELSE load_lines(load_line(st, Head(lines)), Tail(lines))

\* load_from_file on a file that exists
load_from_file(td, content) ==
    LET st == load_lines([in_pomodoro_section |-> FALSE,
                          current_session |-> None,
                          pomodoro_sessions |-> << >>], content)
    IN  [td EXCEPT !.pomodoro_sessions =
            IF IsSome(st.current_session)
            THEN Append(st.pomodoro_sessions, Unwrap(st.current_session))
            ELSE st.pomodoro_sessions]

(***************************************************************************)
(* App                                                                     *)
(***************************************************************************)
Quadrants == {"TopLeft", "TopRight", "BottomLeft", "BottomRight"}

cycle_panels(q, direction) ==
    IF direction = "l"
    THEN CASE q = "TopLeft" -> "BottomLeft"
           [] q = "BottomLeft" -> "TopRight"
           [] q = "TopRight" -> "BottomRight"
           [] q = "BottomRight" -> "TopLeft"
    ELSE IF direction = "h"
    THEN CASE q = "TopLeft" -> "BottomRight"
           [] q = "TopRight" -> "BottomLeft"
           [] q = "BottomLeft" -> "TopLeft"
           [] q = "BottomRight" -> "TopRight"
    ELSE q

(***************************************************************************)
(* TrackList, its sink and its decode threads.  A track is its path: a     *)
(* file number, or NoPath for the placeholder entries.  The music state m  *)
(* is [tl, sink, decoding, disk, status, advance].                         *)
(***************************************************************************)
NoPath == 0
Paths == 1..MaxTracks
PlaybackModes == {"TrackList", "Random", "Repeat", "CurrentOnly"}

playback_mode_next_skips_repeat(mode) ==
    CASE mode = "TrackList" -> "Random"
      [] mode = "Random" -> "CurrentOnly"
      [] mode = "Repeat" -> "CurrentOnly"
      [] mode = "CurrentOnly" -> "TrackList"

playback_mode_next(mode) ==
    CASE mode = "TrackList" -> "Random"
      [] mode = "Random" -> "Repeat"
      [] mode = "Repeat" -> "CurrentOnly"
      [] mode = "CurrentOnly" -> "TrackList"

RECURSIVE WalkDir(_)
WalkDir(S) ==
    IF S = {} THEN << >>
    ELSE LET x == CHOOSE y \in S : \A z \in S : y <= z
         IN  << x >> \o WalkDir(S \ {x})

\* the directories music.music_directory can name: the configured one, and
\* another one that holds no audio file
MusicFolders == {1, 2}

\* self.music_folder.exists()
FolderExists(d, music_folder) ==
    IF music_folder = 1 THEN d.folder ELSE d.other_folder

\* the audio files WalkDir finds under the folder
FolderFiles(d, music_folder) ==
    IF music_folder = 1 THEN d.present ELSE {}

create_dir_all(d, music_folder) ==
    IF music_folder = 1 THEN [d EXCEPT !.folder = TRUE]
    ELSE [d EXCEPT !.other_folder = TRUE]

load_tracks_one_placeholder(m) ==
    IF ~FolderExists(m.disk, m.tl.music_folder)
    THEN [m EXCEPT !.disk = create_dir_all(@, m.tl.music_folder),
                   !.tl.tracks = << NoPath >>]
    ELSE LET found == WalkDir(FolderFiles(m.disk, m.tl.music_folder))
         IN  [m EXCEPT !.tl.tracks =
                 IF found = << >> THEN << NoPath, NoPath >> ELSE found]

load_tracks(m) ==
    IF ~FolderExists(m.disk, m.tl.music_folder)
    THEN [m EXCEPT !.disk = create_dir_all(@, m.tl.music_folder),
                   !.tl.tracks = << NoPath, NoPath >>]
    ELSE LET found == WalkDir(FolderFiles(m.disk, m.tl.music_folder))
         IN  [m EXCEPT !.tl.tracks =
                 IF found = << >> THEN << NoPath, NoPath >> ELSE found]

SinkNew == [queue |-> << >>, paused |-> FALSE, volume |-> "initial"]

MarkStale(s) == [k \in 1..Len(s) |-> [s[k] EXCEPT !.current = FALSE]]

stop_clears_current(m) ==
    [m EXCEPT !.sink.queue = << >>,
              !.tl.is_playing = FALSE,
              !.tl.is_paused = FALSE,
              !.tl.current_track = None,
              !.decoding = MarkStale(@),
              !.status = "stopped"]

stop(m) ==
    [m EXCEPT !.sink.queue = << >>,
              !.tl.is_playing = FALSE,
              !.tl.is_paused = FALSE,
              !.decoding = MarkStale(@),
              !.status = "stopped"]

play_track_stops_first(m, index) ==
    LET m1 == stop(m)
    IN  IF index >= Len(m.tl.tracks) THEN m1
        ELSE LET track_path == m.tl.tracks[index + 1]
             IN  IF track_path \notin m.disk.present THEN m1
                 ELSE LET m2 == IF ~m1.tl.sink /\ m1.disk.audio_device
                                THEN [m1 EXCEPT !.tl.sink = TRUE,
                                                !.sink = SinkNew]
                                ELSE m1
                      IN  IF m2.tl.sink
                          THEN [m2 EXCEPT
                                  !.decoding =
                                      Append(@, [track |-> track_path,
                                                 current |-> TRUE]),
                                  !.tl.current_track = Some(index),
                                  !.tl.is_playing = TRUE,
                                  !.tl.is_paused = FALSE,
                                  !.status = "decoding"]
                          ELSE m2

play_track(m, index) ==
    IF index >= Len(m.tl.tracks) THEN m
    ELSE LET track_path == m.tl.tracks[index + 1]
         IN  IF track_path \notin m.disk.present THEN m
             ELSE LET m1 == stop(m)
                      m2 == IF ~m1.tl.sink /\ m1.disk.audio_device
                            THEN [m1 EXCEPT !.tl.sink = TRUE, !.sink = SinkNew]
                            ELSE m1
                  IN  IF m2.tl.sink
                      THEN [m2 EXCEPT
                              !.decoding = Append(@, [track |-> track_path,
                                                      current |-> TRUE]),
                              !.tl.current_track = Some(index),
                              !.tl.is_playing = TRUE,
                              !.tl.is_paused = FALSE,
                              !.status = "decoding"]
                      ELSE m2

play_selected(m) ==
    IF m.tl.selected_index < Len(m.tl.tracks)
    THEN play_track(m, m.tl.selected_index) ELSE m

move_selection_up(m) ==
    IF Len(m.tl.tracks) # 0
    THEN [m EXCEPT !.tl.selected_index =
             IF @ = 0 THEN Len(m.tl.tracks) - 1 ELSE @ - 1]
    ELSE m

move_selection_down(m) ==
    IF Len(m.tl.tracks) # 0
    THEN [m EXCEPT !.tl.selected_index = (@ + 1) % Len(m.tl.tracks)]
    ELSE m

toggle_play_pause_plays_selected(m) ==
    IF m.tl.sink
    THEN IF m.tl.is_playing /\ ~m.tl.is_paused
         THEN [m EXCEPT !.sink.paused = TRUE, !.tl.is_paused = TRUE]
         ELSE IF m.tl.is_paused
         THEN [m EXCEPT !.sink.paused = FALSE, !.tl.is_paused = FALSE]
         ELSE play_selected(m)
    ELSE play_selected(m)

toggle_play_pause(m) ==
    IF m.tl.sink
    THEN IF m.tl.is_playing /\ ~m.tl.is_paused
         THEN [m EXCEPT !.sink.paused = TRUE, !.tl.is_paused = TRUE]
         ELSE IF m.tl.is_paused
         THEN [m EXCEPT !.sink.paused = FALSE, !.tl.is_paused = FALSE]
         ELSE IF IsSome(m.tl.current_track)
         THEN play_track(m, Unwrap(m.tl.current_track))
         ELSE play_selected(m)
    ELSE play_selected(m)

next_track(m) ==
    IF Len(m.tl.tracks) # 0
    THEN play_track(m, IF IsSome(m.tl.current_track)
                       THEN (Unwrap(m.tl.current_track) + 1) % Len(m.tl.tracks)
                       ELSE 0)
    ELSE m

previous_track(m) ==
    IF Len(m.tl.tracks) # 0
    THEN play_track(m, IF IsSome(m.tl.current_track)
                       THEN (IF Unwrap(m.tl.current_track) = 0
                             THEN Len(m.tl.tracks) - 1
                             ELSE Unwrap(m.tl.current_track) - 1)
                       ELSE 0)
    ELSE m

cycle_playback_mode(m) ==
    [m EXCEPT !.tl.playback_mode = playback_mode_next(@)]

refresh_library_keeps_selection(m) ==
    LET m1 == load_tracks(stop(m))
    IN  [m1 EXCEPT !.tl.current_track = None]

refresh_library(m) ==
    LET m1 == load_tracks(stop(m))
    IN  [m1 EXCEPT !.tl.selected_index = 0, !.tl.current_track = None]

update_music_directory(m, music_directory) ==
    refresh_library([m EXCEPT !.tl.music_folder = music_directory])

\* sink.empty() && self.is_playing && !self.is_paused
should_advance(m) ==
    /\ m.tl.sink
    /\ m.sink.queue = << >>
    /\ m.tl.is_playing
    /\ ~m.tl.is_paused

handle_track_finished_wraps(m, random_index) ==
    IF Len(m.tl.tracks) = 0 THEN m
    ELSE CASE m.tl.playback_mode = "Random" ->
                play_track(m, random_index)
           [] m.tl.playback_mode \in {"TrackList", "Repeat"} ->
                IF IsSome(m.tl.current_track)
                THEN play_track(m, (Unwrap(m.tl.current_track) + 1)
                                       % Len(m.tl.tracks))
                ELSE play_track(m, 0)
           [] m.tl.playback_mode = "CurrentOnly" ->
                IF IsSome(m.tl.current_track)
                THEN play_track(m, Unwrap(m.tl.current_track))
                ELSE m

\* random_index is the value rng.gen_range(0..tracks.len()) returns
handle_track_finished(m, random_index) ==
    IF Len(m.tl.tracks) = 0 THEN m
    ELSE CASE m.tl.playback_mode = "TrackList" ->
                IF IsSome(m.tl.current_track)
                THEN LET next_index == Unwrap(m.tl.current_track) + 1
                     IN  IF next_index < Len(m.tl.tracks)
                         THEN play_track(m, next_index)
                         ELSE stop(m)
                ELSE m
           [] m.tl.playback_mode = "Random" ->
                play_track(m, random_index)
           [] m.tl.playback_mode = "Repeat" ->
                IF IsSome(m.tl.current_track)
                THEN play_track(m, (Unwrap(m.tl.current_track) + 1)
                                       % Len(m.tl.tracks))
                ELSE play_track(m, 0)
           [] m.tl.playback_mode = "CurrentOnly" ->
                IF IsSome(m.tl.current_track)
                THEN play_track(m, Unwrap(m.tl.current_track))
                ELSE m

lower_volume_for_alarm(m) ==
    IF m.tl.sink THEN [m EXCEPT !.sink.volume = "alarm"] ELSE m

restore_volume(m) ==
    IF m.tl.sink THEN [m EXCEPT !.sink.volume = "default"] ELSE m

TrackListNew(d) ==
    LET m0 == [tl |-> [tracks |-> << >>, current_track |-> None,
                       selected_index |-> 0, music_folder |-> 1,
                       sink |-> FALSE,
                       is_playing |-> FALSE, is_paused |-> FALSE,
                       playback_mode |-> "TrackList"],
               sink |-> SinkNew, decoding |-> << >>, disk |-> d,
               status |-> "idle", advance |-> None]
    IN  load_tracks(m0)

(***************************************************************************)
(* Initial states: AppState::new up to, not including, the call of         *)
(* load_daily_sessions.                                                    *)
(***************************************************************************)
HistorySession(d, w) ==
    [date |-> d, work_sessions |-> w, total_work_minutes |-> w * WorkMinutes,
     break_sessions |-> 0, total_break_minutes |-> 0,
     tasks_worked_on |-> << >>]

HistorySessions == { HistorySession(d, w) : d \in Dates, w \in 1..MaxHistoryWork }

\* what load_from_file can leave in Todo::pomodoro_sessions
Histories ==
    UNION { [1..n -> HistorySessions] : n \in 0..MaxHistoryLen }

TaskName(k) == IF k = 1 THEN "t1" ELSE IF k = 2 THEN "t2" ELSE "t3"

TodoNew(history) ==
    [items |-> [k \in 1..MaxItems |-> TodoItemNew(TaskName(k))],
     selected_index |-> 0,
     pomodoro_sessions |-> history]

FullDisk ==
    [folder |-> TRUE, other_folder |-> FALSE, present |-> Paths,
     corrupt |-> {}, audio_device |-> TRUE, alarm_file |-> "ok"]

Disks ==
    { d \in [folder : BOOLEAN, other_folder : {FALSE}, present : {{}, Paths},
             corrupt : {{}, {2}}, audio_device : BOOLEAN,
             alarm_file : {"ok"}] :
        /\ d.corrupt \subseteq d.present
        /\ ~d.folder => d.present = {} }

Music == [tl |-> track_list, sink |-> sink, decoding |-> decoding,
          disk |-> disk, status |-> play_status, advance |-> last_advance]

SetMusic(m) ==
    /\ track_list' = m.tl
    /\ sink' = m.sink
    /\ decoding' = m.decoding
    /\ disk' = m.disk
    /\ play_status' = m.status
    /\ last_advance' = m.advance

\* start_pc is "load" before Todo::new has read the file and "start" after
InitAt(start_pc, N, td, content, d, save_pomodoro_data) ==
    /\ pc = start_pc
    /\ config = [save_pomodoro_data |-> save_pomodoro_data]
    /\ file = content
    /\ now = 0
    /\ today = 1
    /\ timer = TimerNew(N)
    /\ todo = td
    /\ app = [focused_quadrant |-> "TopLeft"]
    /\ LET m == TrackListNew(d)
       IN  /\ track_list = m.tl
           /\ sink = m.sink
           /\ decoding = m.decoding
           /\ disk = m.disk
           /\ play_status = m.status
           /\ last_advance = m.advance
    /\ was_alarm_active_last_update = FALSE
    /\ volume_call = "none"
    /\ last_volume_call = "none"
    /\ alarm_seen = FALSE
    /\ credit_calls = 0
    /\ credit_due = 0
    /\ last_credit = None
    /\ completions = [date \in Dates |-> [p \in Phases |-> 0]]
    /\ alarm_signal = "idle"

\* Todo::new has loaded the file that holds history
InitWith(N, history, d, save_pomodoro_data) ==
    InitAt("start", N, TodoNew(history), save_to_file(TodoNew(history)), d,
           save_pomodoro_data)

Init ==
    \E N \in 1..MaxInterval, save \in BOOLEAN :
        InitWith(N, << >>, FullDisk, save)

InitSessions ==
    \E history \in Histories, save \in BOOLEAN :
        InitWith(MaxInterval, history, FullDisk, save)

InitDays ==
    \E N \in 1..MaxInterval : InitWith(N, << >>, FullDisk, TRUE)

\* at most one session in the file, of any date
InitLoad ==
    \E history \in {<< >>} \cup {<< h >> : h \in HistorySessions} :
        InitWith(MaxInterval, history, FullDisk, TRUE)

\* the sessions a todos.md of the model can hold
FileSessions ==
    { [date |-> d, work_sessions |-> 12,
       total_work_minutes |-> 12 * WorkMinutes,
       break_sessions |-> 1, total_break_minutes |-> ShortBreakMinutes,
       tasks_worked_on |-> tasks] :
         d \in Dates, tasks \in {<< >>, << "t1", "t2" >>, << LongTaskName >>} }

Collections == UNION { [1..n -> FileSessions] : n \in 0..MaxBlocks }

\* a block whose date, or whose work-session count, cannot be parsed
BadDate(block) == [block EXCEPT ![1] = << "### ", "x" >>]
BadNumber(block) == [block EXCEPT ![2] = << "- Work sessions: ", "x" >>]

Blocks ==
    UNION { { session_lines(s), BadDate(session_lines(s)),
              BadNumber(session_lines(s)) } : s \in FileSessions }

\* the lines of a file before the first block of the Pomodoro section
SectionHead ==
    << << "# TODO List" >>, << >>, << >>, << "## Pomodoro Sessions" >>, << >> >>

\* the files Todo::new can find: a Pomodoro section of up to MaxBlocks
\* blocks, or none
Files ==
    { save_to_file([pomodoro_sessions |-> << >>]) }
    \cup { SectionHead \o Concat(bs) :
             bs \in UNION { [1..n -> Blocks] : n \in 1..MaxBlocks } }

\* before Todo::new reads the file; the first task of the list has the long
\* name
InitFile ==
    \E content \in Files :
        InitAt("load", MaxInterval,
               [TodoNew(<< >>) EXCEPT !.items[1].task = LongTaskName],
               content, FullDisk, TRUE)

\* any alarm file, with and without a usable audio output
InitAlarm ==
    \E alarm_file \in AlarmFiles, audio_device \in BOOLEAN :
        InitWith(MaxInterval, << >>,
                 [FullDisk EXCEPT !.alarm_file = alarm_file,
                                  !.audio_device = audio_device], TRUE)

InitMusic ==
    \E d \in Disks : InitWith(MaxInterval, << >>, d, TRUE)

(***************************************************************************)
(* The control thread: AppState::new, then run()'s loop                    *)
(***************************************************************************)
\* AppState::new: if config.todo.save_pomodoro_data,
\* timer.load_daily_sessions(todo.get_pomodoro_sessions())
\* AppState::new: Todo::new reads todos.md
LoadFile ==
    /\ pc = "load"
    /\ todo' = load_from_file(todo, file)
    /\ pc' = "start"
    /\ UNCHANGED << config, alarm_signal, file, completions, now, today,
                    timer, app, musicVars, volumeVars, creditVars >>

Startup ==
    /\ pc = "start"
    /\ timer' = IF config.save_pomodoro_data
                THEN load_daily_sessions(timer, todo.pomodoro_sessions)
                ELSE timer
    /\ pc' = "tick"
    /\ UNCHANGED << config, alarm_signal, file, completions, now, today, todo,
                    app, musicVars, volumeVars, creditVars >>

next_latch_never_set(is_alarm_active) == FALSE

\* app_state.was_alarm_active_last_update = is_alarm_active
next_latch(is_alarm_active) == is_alarm_active

\* One pass of run()'s loop up to event::poll: terminal.draw(render) credits
\* a completed Work phase and runs Timer::render (which calls update), then
\* update_playback_state, then update_alarm_state with the edge-triggered
\* volume calls.  All of it runs on the control thread; random_index is the
\* value rng.gen_range returns if a Random auto-advance happens.
Tick(random_index) ==
    /\ pc = "tick"
    /\ LET credit == work_phase_just_completed(timer)
                        /\ IsSome(timer.selected_todo_index)
           todo_index == Unwrap(timer.selected_todo_index)
           work_minutes == get_work_session_minutes(timer)
           t1 == IF credit
                 THEN clear_work_completed_flag(set_selected_todo(timer, None))
                 ELSE timer
           t2 == IF t1.state = "Running" THEN update(t1) ELSE t1
           completes_work == t1.phase = "Work" /\ t2.phase # "Work"
           advance == should_advance(Music)
           m1 == IF advance
                 THEN [handle_track_finished(Music, random_index) EXCEPT
                          !.advance = Some([from |-> track_list.current_track,
                                            natural |-> play_status = "ended"])]
                 ELSE [Music EXCEPT !.advance = None]
           is_alarm_active == alarm_state_result(t2)
           duck == is_alarm_active /\ ~was_alarm_active_last_update
           restore == ~is_alarm_active /\ was_alarm_active_last_update
           m2 == IF duck THEN lower_volume_for_alarm(m1)
                 ELSE IF restore THEN restore_volume(m1)
                 ELSE m1
       IN  /\ completes_work => t1.pomodoro_count < MaxPomodoros
           /\ Len(m2.decoding) <= MaxDecoding
           /\ timer' = update_alarm_state(t2)
           /\ todo' = IF credit
                      THEN add_time_to_task_by_index(todo, todo_index, work_minutes)
                      ELSE todo
           /\ file' = IF credit /\ todo_index < Len(todo.items)
                      THEN save_to_file(todo') ELSE file
           /\ credit_calls' = IF credit THEN credit_calls + 1 ELSE credit_calls
           /\ last_credit' = IF credit THEN Some(<< todo_index, work_minutes >>)
                             ELSE last_credit
           /\ credit_due' = IF completes_work /\ IsSome(t1.selected_todo_index)
                            THEN credit_due + 1 ELSE credit_due
           /\ alarm_signal' = IF t2.phase # t1.phase
                              THEN alarm_thread(disk) ELSE alarm_signal
           /\ completions' = IF t2.phase # t1.phase
                             THEN [completions EXCEPT ![today][t1.phase] = @ + 1]
                             ELSE completions
           /\ SetMusic(m2)
           /\ volume_call' = IF duck THEN "duck"
                             ELSE IF restore THEN "restore" ELSE "none"
           /\ last_volume_call' = IF duck THEN "duck"
                                  ELSE IF restore THEN "restore"
                                  ELSE last_volume_call
           /\ was_alarm_active_last_update' = next_latch(is_alarm_active)
           /\ alarm_seen' = is_alarm_active
    /\ pc' = "poll"
    /\ UNCHANGED << config, now, today, app >>

Frame == \E random_index \in 0..(Len(track_list.tracks) - 1) : Tick(random_index)

\* event::poll(timeout) returns without a key press
NoKey ==
    /\ pc = "poll"
    /\ pc' = "tick"
    /\ UNCHANGED << config, alarm_signal, file, completions, now, today,
                    timer, todo, app, musicVars, volumeVars, creditVars >>

KeyH ==
    /\ pc = "poll"
    /\ app' = [app EXCEPT !.focused_quadrant = cycle_panels(@, "h")]
    /\ pc' = "tick"
    /\ UNCHANGED << config, alarm_signal, file, completions, now, today,
                    timer, todo, musicVars, volumeVars, creditVars >>

KeyL ==
    /\ pc = "poll"
    /\ app' = [app EXCEPT !.focused_quadrant = cycle_panels(@, "l")]
    /\ pc' = "tick"
    /\ UNCHANGED << config, alarm_signal, file, completions, now, today,
                    timer, todo, musicVars, volumeVars, creditVars >>

\* ' ' on the timer panel
KeySpaceTimer ==
    /\ pc = "poll"
    /\ app.focused_quadrant = "TopLeft"
    /\ timer' = toggle_start_pause(timer)
    /\ pc' = "tick"
    /\ UNCHANGED << config, alarm_signal, file, completions, now, today, todo,
                    app, musicVars, volumeVars, creditVars >>

\* 'r' on the timer panel
KeyReset ==
    /\ pc = "poll"
    /\ app.focused_quadrant = "TopLeft"
    /\ timer' = reset(timer)
    /\ pc' = "tick"
    /\ UNCHANGED << config, alarm_signal, file, completions, now, today, todo,
                    app, musicVars, volumeVars, creditVars >>

\* 'S' on the timer panel
KeySkip ==
    /\ pc = "poll"
    /\ app.focused_quadrant = "TopLeft"
    /\ timer.phase = "Work" => timer.pomodoro_count < MaxPomodoros
    /\ timer' = skip_phase(timer)
    /\ credit_due' = IF timer.phase = "Work" /\ IsSome(timer.selected_todo_index)
                     THEN credit_due + 1 ELSE credit_due
    /\ completions' = [completions EXCEPT ![today][timer.phase] = @ + 1]
    /\ alarm_signal' = alarm_thread(disk)
    /\ pc' = "tick"
    /\ UNCHANGED << config, file, now, today, todo, app, musicVars,
                    volumeVars, credit_calls, last_credit >>

\* 's' on the todo panel
KeySelect ==
    /\ pc = "poll"
    /\ app.focused_quadrant = "BottomLeft"
    /\ LET selected_task == get_selected_task(todo)
       IN  IF IsSome(selected_task)
           THEN LET t1 == set_selected_todo_with_task_name(
                              timer, Some(todo.selected_index),
                              Some(Unwrap(selected_task).task))
                IN  timer' = IF t1.state = "Stopped"
                             THEN toggle_start_pause(t1) ELSE t1
           ELSE UNCHANGED timer
    /\ pc' = "tick"
    /\ UNCHANGED << config, alarm_signal, file, completions, now, today, todo,
                    app, musicVars, volumeVars, creditVars >>

\* 'j' / 'k' on the todo panel
KeyTodoDown ==
    /\ pc = "poll"
    /\ app.focused_quadrant = "BottomLeft"
    /\ todo' = todo_move_selection_down(todo)
    /\ pc' = "tick"
    /\ UNCHANGED << config, alarm_signal, file, completions, now, today,
                    timer, app, musicVars, volumeVars, creditVars >>

KeyTodoUp ==
    /\ pc = "poll"
    /\ app.focused_quadrant = "BottomLeft"
    /\ todo' = todo_move_selection_up(todo)
    /\ pc' = "tick"
    /\ UNCHANGED << config, alarm_signal, file, completions, now, today,
                    timer, app, musicVars, volumeVars, creditVars >>

\* 'D' on the todo panel
KeyDelete ==
    /\ pc = "poll"
    /\ app.focused_quadrant = "BottomLeft"
    /\ todo' = delete_selected_task(todo)
    /\ file' = IF todo.selected_index < Len(todo.items)
               THEN save_to_file(todo') ELSE file
    /\ pc' = "tick"
    /\ UNCHANGED << config, alarm_signal, completions, now, today, timer, app,
                    musicVars, volumeVars, creditVars >>

\* 'q': save the daily sessions and leave the loop
KeyQuit ==
    /\ pc = "poll"
    /\ todo' = IF config.save_pomodoro_data
               THEN save_pomodoro_sessions(todo, timer.daily_sessions)
               ELSE todo
    /\ file' = IF config.save_pomodoro_data THEN save_to_file(todo') ELSE file
    /\ pc' = "done"
    /\ UNCHANGED << config, alarm_signal, completions, now, today, timer, app,
                    musicVars, volumeVars, creditVars >>

\* Enter on the music panel
KeyEnter ==
    /\ pc = "poll"
    /\ app.focused_quadrant = "BottomRight"
    /\ Len(play_selected(Music).decoding) <= MaxDecoding
    /\ SetMusic(play_selected(Music))
    /\ pc' = "tick"
    /\ UNCHANGED << config, alarm_signal, file, completions, now, today,
                    timer, todo, app, volumeVars, creditVars >>

\* ' ' on the music panel
KeySpaceMusic ==
    /\ pc = "poll"
    /\ app.focused_quadrant = "BottomRight"
    /\ Len(toggle_play_pause(Music).decoding) <= MaxDecoding
    /\ SetMusic(toggle_play_pause(Music))
    /\ pc' = "tick"
    /\ UNCHANGED << config, alarm_signal, file, completions, now, today,
                    timer, todo, app, volumeVars, creditVars >>

\* 'n' on the music panel
KeyNext ==
    /\ pc = "poll"
    /\ app.focused_quadrant = "BottomRight"
    /\ Len(next_track(Music).decoding) <= MaxDecoding
    /\ SetMusic(next_track(Music))
    /\ pc' = "tick"
    /\ UNCHANGED << config, alarm_signal, file, completions, now, today,
                    timer, todo, app, volumeVars, creditVars >>

\* 'p' on the music panel
KeyPrevious ==
    /\ pc = "poll"
    /\ app.focused_quadrant = "BottomRight"
    /\ Len(previous_track(Music).decoding) <= MaxDecoding
    /\ SetMusic(previous_track(Music))
    /\ pc' = "tick"
    /\ UNCHANGED << config, alarm_signal, file, completions, now, today,
                    timer, todo, app, volumeVars, creditVars >>

\* 'R' on the music panel
KeyRefresh ==
    /\ pc = "poll"
    /\ app.focused_quadrant = "BottomRight"
    /\ SetMusic(refresh_library(Music))
    /\ pc' = "tick"
    /\ UNCHANGED << config, alarm_signal, file, completions, now, today,
                    timer, todo, app, volumeVars, creditVars >>

\* 'm' on the music panel
KeyMode ==
    /\ pc = "poll"
    /\ app.focused_quadrant = "BottomRight"
    /\ SetMusic(cycle_playback_mode(Music))
    /\ pc' = "tick"
    /\ UNCHANGED << config, alarm_signal, file, completions, now, today,
                    timer, todo, app, volumeVars, creditVars >>

\* 'C' on any panel: reload_config reads the configuration file again and
\* hands its music.music_directory to update_music_directory; the other
\* settings of the file are the ones read at startup
KeyReloadConfig(music_directory) ==
    /\ pc = "poll"
    /\ SetMusic(update_music_directory(Music, music_directory))
    /\ pc' = "tick"
    /\ UNCHANGED << config, alarm_signal, file, completions, now, today,
                    timer, todo, app, volumeVars, creditVars >>

\* 'j' on the music panel
KeyMusicDown ==
    /\ pc = "poll"
    /\ app.focused_quadrant = "BottomRight"
    /\ SetMusic(move_selection_down(Music))
    /\ pc' = "tick"
    /\ UNCHANGED << config, alarm_signal, file, completions, now, today,
                    timer, todo, app, volumeVars, creditVars >>

\* 'k' on the music panel
KeyMusicUp ==
    /\ pc = "poll"
    /\ app.focused_quadrant = "BottomRight"
    /\ SetMusic(move_selection_up(Music))
    /\ pc' = "tick"
    /\ UNCHANGED << config, alarm_signal, file, completions, now, today,
                    timer, todo, app, volumeVars, creditVars >>

(***************************************************************************)
(* The decode threads spawned by play_track, and the audio device          *)
(***************************************************************************)
\* a thread opened and decoded its file: sink.append(source); sink.play()
DecodeAppend(i) ==
    /\ pc # "start"
    /\ i \in 1..Len(decoding)
    /\ decoding[i].track \in disk.present \ disk.corrupt
    /\ sink' = [sink EXCEPT !.queue = Append(@, decoding[i]), !.paused = FALSE]
    /\ decoding' = RemoveAt(decoding, i)
    /\ play_status' = IF decoding[i].current THEN "in_sink" ELSE play_status
    /\ UNCHANGED << config, alarm_signal, file, completions, pc, now, today,
                    timer, todo, app, track_list, disk, last_advance,
                    volumeVars, creditVars >>

\* a thread could not open or decode its file and ends without appending
DecodeFail(i) ==
    /\ pc # "start"
    /\ i \in 1..Len(decoding)
    /\ decoding[i].track \notin disk.present \ disk.corrupt
    /\ decoding' = RemoveAt(decoding, i)
    /\ play_status' = IF decoding[i].current THEN "failed" ELSE play_status
    /\ UNCHANGED << config, alarm_signal, file, completions, pc, now, today,
                    timer, todo, app, track_list, sink, disk, last_advance,
                    volumeVars, creditVars >>

\* the source at the head of the sink's queue plays to its end
TrackEnds ==
    /\ pc # "start"
    /\ track_list.sink
    /\ ~sink.paused
    /\ sink.queue # << >>
    /\ sink' = [sink EXCEPT !.queue = Tail(@)]
    /\ play_status' = IF Head(sink.queue).current THEN "ended" ELSE play_status
    /\ UNCHANGED << config, alarm_signal, file, completions, pc, now, today,
                    timer, todo, app, track_list, decoding, disk,
                    last_advance, volumeVars, creditVars >>

\* a file of the music folder is deleted while the program runs
RemoveFile(f) ==
    /\ pc = "poll"
    /\ f \in disk.present
    /\ Cardinality(Paths \ disk.present) < MaxRemovals
    /\ disk' = [disk EXCEPT !.present = @ \ {f}, !.corrupt = @ \ {f}]
    /\ UNCHANGED << config, alarm_signal, file, completions, pc, now, today,
                    timer, todo, app, track_list, sink, decoding, play_status,
                    last_advance, volumeVars, creditVars >>

(***************************************************************************)
(* Time                                                                    *)
(***************************************************************************)
\* time passes while the control thread waits in event::poll
TimePasses ==
    /\ pc = "poll"
    /\ now + TimeStep <= MaxNow
    /\ now' = now + TimeStep
    /\ UNCHANGED << config, alarm_signal, file, completions, pc, today, timer,
                    todo, app, musicVars, volumeVars, creditVars >>

\* midnight passes while the control thread waits in event::poll
DateChanges ==
    /\ pc = "poll"
    /\ today < MaxDate
    /\ today' = today + 1
    /\ UNCHANGED << config, alarm_signal, file, completions, pc, now, timer,
                    todo, app, musicVars, volumeVars, creditVars >>

(***************************************************************************)
(* Specifications                                                          *)
(***************************************************************************)
\* the timer, the todo credit and the alarm coordination
Next ==
    \/ Startup
    \/ Frame
    \/ NoKey
    \/ KeyH
    \/ KeyL
    \/ KeySpaceTimer
    \/ KeyReset
    \/ KeySkip
    \/ KeySelect
    \/ KeyQuit
    \/ TimePasses

Spec == Init /\ [][Next]_vars

NextSessions ==
    \/ Startup
    \/ Frame
    \/ NoKey
    \/ KeyH
    \/ KeyL
    \/ KeySkip
    \/ KeySelect
    \/ KeyTodoDown
    \/ DateChanges

SpecSessions == InitSessions /\ [][NextSessions]_vars

\* completions by skip and by time running out, over several dates
NextDays ==
    \/ Startup
    \/ Frame
    \/ NoKey
    \/ KeySpaceTimer
    \/ KeySkip
    \/ TimePasses
    \/ DateChanges

SpecDays == InitDays /\ [][NextDays]_vars

\* the timer's operations after a history was loaded
NextLoad ==
    \/ Startup
    \/ Frame
    \/ NoKey
    \/ KeyL
    \/ KeySpaceTimer
    \/ KeyReset
    \/ KeySkip
    \/ KeySelect
    \/ TimePasses

SpecLoad == InitLoad /\ [][NextLoad]_vars

\* the program on the files of Files
NextFile ==
    \/ LoadFile
    \/ Startup
    \/ Frame
    \/ NoKey
    \/ KeyL
    \/ KeySelect
    \/ KeyQuit

SpecFile == InitFile /\ [][NextFile]_vars

\* phase completions and the alarm
NextAlarm ==
    \/ Startup
    \/ Frame
    \/ NoKey
    \/ KeySpaceTimer
    \/ KeySkip
    \/ TimePasses

SpecAlarm == InitAlarm /\ [][NextAlarm]_vars

\* selections and completions over several dates, nothing loaded
InitLazy == InitWith(MaxInterval, << >>, FullDisk, TRUE)

NextLazy ==
    \/ Startup
    \/ Frame
    \/ NoKey
    \/ KeyL
    \/ KeySelect
    \/ KeySpaceTimer
    \/ KeySkip
    \/ DateChanges

SpecLazy == InitLazy /\ [][NextLazy]_vars

NextMusic ==
    \/ Startup
    \/ Frame
    \/ NoKey
    \/ KeyH
    \/ KeyL
    \/ KeyEnter
    \/ KeySpaceMusic
    \/ KeyNext
    \/ KeyPrevious
    \/ KeyRefresh
    \/ KeyMode
    \/ KeyMusicDown
    \/ KeyMusicUp
    \/ \E i \in 1..MaxDecoding : DecodeAppend(i)
    \/ \E i \in 1..MaxDecoding : DecodeFail(i)
    \/ TrackEnds
    \/ \E f \in Paths : RemoveFile(f)

SpecMusic == InitMusic /\ [][NextMusic]_vars

\* completions, the keys of the todo panel and the credit of the next frame
NextCredit ==
    \/ Startup
    \/ Frame
    \/ NoKey
    \/ KeyL
    \/ KeySelect
    \/ KeyTodoDown
    \/ KeyTodoUp
    \/ KeyDelete
    \/ TimePasses

SpecCredit == InitLazy /\ [][NextCredit]_vars

\* the alarm of a completed phase while music is started and played
NextVolume ==
    \/ Startup
    \/ Frame
    \/ NoKey
    \/ KeyL
    \/ KeySkip
    \/ KeyEnter
    \/ \E i \in 1..MaxDecoding : DecodeAppend(i)
    \/ TrackEnds
    \/ TimePasses

SpecVolume == InitLazy /\ [][NextVolume]_vars

\* a list played to its end while files disappear; the loop never waits
\* longer than its poll timeout, so its passes keep coming
NextAdvance ==
    \/ Startup
    \/ Frame
    \/ NoKey
    \/ KeyL
    \/ KeyEnter
    \/ \E i \in 1..MaxDecoding : DecodeAppend(i)
    \/ TrackEnds
    \/ \E f \in Paths : RemoveFile(f)

SpecAdvance ==
    /\ InitLazy
    /\ [][NextAdvance]_vars
    /\ WF_vars(Startup)
    /\ WF_vars(Frame)
    /\ WF_vars(NoKey)

\* alarms and the volume calls while the loop keeps running: event::poll
\* returns after its timeout at the latest, and the clock does not stop
NextDuck ==
    \/ Startup
    \/ Frame
    \/ NoKey
    \/ KeySpaceTimer
    \/ KeyReset
    \/ KeySkip
    \/ TimePasses

SpecDuck ==
    /\ InitLazy
    /\ [][NextDuck]_vars
    /\ WF_vars(Startup)
    /\ WF_vars(Frame)
    /\ WF_vars(NoKey)
    /\ SF_vars(TimePasses)

\* the library: scans, directory changes and the indices into the tracks,
\* with an audio device and files that decode
InitLibrary ==
    \E d \in { x \in Disks : x.audio_device /\ x.corrupt = {} } :
        InitWith(MaxInterval, << >>, d, TRUE)

NextLibrary ==
    \/ Startup
    \/ Frame
    \/ NoKey
    \/ KeyL
    \/ KeyEnter
    \/ KeyNext
    \/ KeyPrevious
    \/ KeyRefresh
    \/ KeyMode
    \/ KeyMusicDown
    \/ KeyMusicUp
    \/ \E music_directory \in MusicFolders : KeyReloadConfig(music_directory)
    \/ \E i \in 1..MaxDecoding : DecodeAppend(i)
    \/ \E i \in 1..MaxDecoding : DecodeFail(i)
    \/ TrackEnds
    \/ \E f \in Paths : RemoveFile(f)

SpecLibrary == InitLibrary /\ [][NextLibrary]_vars

(***************************************************************************)
(* Properties                                                              *)
(***************************************************************************)
\* update() is about to find the running phase used up
NaturalDue ==
    /\ timer.state = "Running"
    /\ IsSome(timer.last_tick)
    /\ now - Unwrap(timer.last_tick) >= timer.time_remaining

\* a step in which complete_phase runs, from skip_phase or from update
CompletionStep == KeySkip \/ (Frame /\ NaturalDue)

\* a step in which update_playback_state calls handle_track_finished
AutoAdvanceStep == Frame /\ should_advance(Music)

AllFilesExist ==
    \A k \in 1..Len(track_list.tracks) : track_list.tracks[k] \in disk.present

\* after the step, track k has been started by play_track
Started(k) ==
    /\ track_list'.current_track = Some(k)
    /\ track_list'.is_playing
    /\ ~track_list'.is_paused
    /\ \E j \in 1..Len(decoding') :
         decoding'[j] = [track |-> track_list.tracks[k + 1], current |-> TRUE]

\* C1: a completion of a Work phase adds exactly 1 to pomodoro_count and
\* moves to LongBreak iff the new count is a multiple of long_break_interval,
\* else to ShortBreak; with an interval of 4 the counts 1, 2, 3 give a
\* short break and the count 4 a long one.
C1_WorkCompletion ==
    [][(timer.phase = "Work" /\ CompletionStep) =>
          LET count == timer'.pomodoro_count
              N == timer.long_break_interval
          IN  /\ count = timer.pomodoro_count + 1
              /\ timer'.phase \in {"ShortBreak", "LongBreak"}
              /\ timer'.phase = "LongBreak" <=> count % N = 0
              /\ (N = 4 /\ count \in 1..3) => timer'.phase = "ShortBreak"
              /\ (N = 4 /\ count = 4) => timer'.phase = "LongBreak"]_vars

C1_Witness ==
    /\ timer.long_break_interval = 4
    /\ timer.pomodoro_count = 4
    /\ timer.phase = "LongBreak"
    /\ Len(timer.daily_sessions) = 1
    /\ timer.daily_sessions[1].work_sessions = 4
    /\ timer.daily_sessions[1].break_sessions = 3

\* C2: a pass of the loop in which the Running timer finds an elapsed time E
\* smaller than the remaining time D leaves D - E remaining and keeps phase
\* and state; a pass with the timer not Running leaves everything update
\* writes as it was.
C2_AdvancePartial ==
    [][Frame =>
          /\ (timer.state = "Running" /\ IsSome(timer.last_tick)
                /\ now - Unwrap(timer.last_tick) < timer.time_remaining) =>
                /\ timer'.time_remaining =
                       timer.time_remaining - (now - Unwrap(timer.last_tick))
                /\ timer'.phase = timer.phase
                /\ timer'.state = timer.state
          /\ timer.state # "Running" =>
                /\ timer'.time_remaining = timer.time_remaining
                /\ timer'.phase = timer.phase
                /\ timer'.state = timer.state
                /\ timer'.last_tick = timer.last_tick
                /\ timer'.pomodoro_count = timer.pomodoro_count
                /\ timer'.daily_sessions = timer.daily_sessions]_vars

C2_Witness ==
    /\ pc = "poll"
    /\ timer.state = "Running"
    /\ timer.phase = "LongBreak"
    /\ timer.last_tick = Some(now)
    /\ timer.time_remaining = timer.long_break_duration - TimeStep

\* C3: a pass of the loop calls lower_volume_for_alarm exactly when the alarm
\* state it observes is active and the one observed by the pass before was
\* not, and restore_volume exactly when it is inactive and the one before was
\* active; no other step makes a volume call; so the calls alternate,
\* starting with a duck.
C3_VolumeCallsOnEdges ==
    [][/\ Frame =>
            /\ volume_call' = "duck" <=> (~alarm_seen /\ alarm_seen')
            /\ volume_call' = "restore" <=> (alarm_seen /\ ~alarm_seen')
            /\ alarm_seen' = timer'.alarm_active
            /\ volume_call' = "duck" => last_volume_call \in {"none", "restore"}
            /\ volume_call' = "restore" => last_volume_call = "duck"
            /\ volume_call' # "none" => last_volume_call' = volume_call'
            /\ volume_call' = "none" => last_volume_call' = last_volume_call
       /\ (volume_call' # volume_call \/ last_volume_call' # last_volume_call)
            => pc = "tick"]_vars

C3_Witness ==
    /\ last_volume_call = "restore"
    /\ volume_call = "none"
    /\ timer.alarm_active
    /\ ~alarm_seen

\* C4: every completion of a Work phase with a task selected is followed by
\* exactly one add_time_to_task_by_index call: when the program has left its
\* loop, as many calls were made as such completions happened.
C4_EveryCompletionCredited ==
    pc = "done" => credit_calls = credit_due

\* C5: update_playback_state never triggers the auto-advance for a track
\* whose decode thread has not handed its audio to the sink yet.
C5_NoAdvanceBeforeAudio ==
    [][AutoAdvanceStep => play_status # "decoding"]_vars

\* C6: when the sink has run empty on track i and every file of the library
\* exists, the auto-advance starts track i + 1 in TrackList mode (and stops,
\* without wrapping, after the last track), track (i + 1) mod length in
\* Repeat mode, track i again in CurrentOnly mode and some track of the
\* library in Random mode.
C6_AutoAdvanceByMode ==
    [][(AutoAdvanceStep /\ AllFilesExist /\ IsSome(track_list.current_track)) =>
          LET i == Unwrap(track_list.current_track)
              n == Len(track_list.tracks)
              mode == track_list.playback_mode
          IN  /\ track_list'.playback_mode = mode
              /\ mode = "TrackList" =>
                    IF i + 1 < n
                    THEN Started(i + 1)
                    ELSE /\ ~track_list'.is_playing
                         /\ ~track_list'.is_paused
                         /\ sink'.queue = << >>
                         /\ \A j \in 1..Len(decoding') : ~decoding'[j].current
              /\ mode = "Repeat" => Started((i + 1) % n)
              /\ mode = "CurrentOnly" => Started(i)
              /\ mode = "Random" => \E k \in 0..(n - 1) : Started(k)]_vars

C6_Witness ==
    /\ pc = "poll"
    /\ track_list.playback_mode = "Repeat"
    /\ Len(track_list.tracks) = MaxTracks
    /\ last_advance = Some([from |-> Some(MaxTracks - 1), natural |-> TRUE])
    /\ track_list.current_track = Some(0)
    /\ track_list.is_playing

\* C7 as stated: current_track is set only while the player is Playing or
\* Paused.
C7_IndexOnlyWhilePlaying ==
    IsSome(track_list.current_track)
        => (track_list.is_playing \/ track_list.is_paused)

\* C7 as amended: a Playing or Paused player has current_track set; the end
\* of the last track in TrackList mode leaves the player Stopped with
\* current_track still set to that track, and only refresh_library unsets
\* current_track.
C7_IndexKeptWhenStopped ==
    [][/\ (track_list'.is_playing \/ track_list'.is_paused)
            => IsSome(track_list'.current_track)
       /\ (AutoAdvanceStep /\ track_list.playback_mode = "TrackList"
             /\ track_list.current_track = Some(Len(track_list.tracks) - 1)) =>
            /\ ~track_list'.is_playing
            /\ ~track_list'.is_paused
            /\ track_list'.current_track = track_list.current_track
       /\ (IsSome(track_list.current_track) /\ ~IsSome(track_list'.current_track))
            => KeyRefresh]_vars

C7_Witness ==
    /\ Len(track_list.tracks) = MaxTracks
    /\ track_list.playback_mode = "TrackList"
    /\ last_advance = Some([from |-> Some(MaxTracks - 1), natural |-> TRUE])
    /\ ~track_list.is_playing
    /\ ~track_list.is_paused
    /\ track_list.current_track = Some(MaxTracks - 1)

\* C8: the timer starts Stopped in the Work phase; the phase changes only in
\* a step that completes a phase, and then from Work to ShortBreak or
\* LongBreak and from a break to Work.
C8_PhaseCycle ==
    /\ (timer.state = "Stopped" /\ timer.phase = "Work")
    /\ [][timer'.phase # timer.phase =>
            /\ CompletionStep
            /\ \/ timer.phase = "Work" /\ timer'.phase \in {"ShortBreak", "LongBreak"}
               \/ timer.phase \in {"ShortBreak", "LongBreak"} /\ timer'.phase = "Work"]_vars

C8_Witness ==
    /\ timer.phase = "Work"
    /\ timer.pomodoro_count = 2
    /\ Len(timer.daily_sessions) = 1
    /\ timer.daily_sessions[1].break_sessions = 2

\* C9: a step that completes a phase, by skip_phase or by update, leaves the
\* timer Stopped with the full duration of the new phase remaining, and a
\* pass of the loop with the timer Stopped does not count down.
C9_CompletionStops ==
    [][/\ CompletionStep =>
            /\ timer'.state = "Stopped"
            /\ timer'.phase # timer.phase
            /\ timer'.time_remaining = PhaseDuration(timer', timer'.phase)
       /\ (Frame /\ timer.state = "Stopped") =>
            /\ timer'.state = "Stopped"
            /\ timer'.time_remaining = timer.time_remaining]_vars

C9_Witness ==
    /\ timer.state = "Stopped"
    /\ timer.phase = "ShortBreak"
    /\ IsSome(timer.last_tick)
    /\ timer.time_remaining = timer.short_break_duration

\* C10: no two entries of the timer's daily_sessions have the same date.
C10_OneSessionPerDate ==
    \A i, j \in 1..Len(timer.daily_sessions) :
        i # j => timer.daily_sessions[i].date # timer.daily_sessions[j].date

\* the timer started with no daily sessions
StartedEmpty ==
    ~config.save_pomodoro_data \/ todo.pomodoro_sessions = << >>

\* C11: starting from an empty history, after k Work, s ShortBreak and l
\* LongBreak completions on a date, that date's session has work_sessions = k,
\* total_work_minutes = k * work_minutes, break_sessions = s + l and
\* total_break_minutes = s * short_break_minutes + l * long_break_minutes,
\* whatever was completed on other dates; a date without completions has no
\* session or one with all four at 0.
C11_SessionTotals ==
    StartedEmpty =>
        \A date \in Dates :
            LET c == completions[date]
                ss == timer.daily_sessions
            IN  IF HasDate(ss, date)
                THEN LET session == ss[FindDate(ss, date)]
                     IN  /\ session.work_sessions = c["Work"]
                         /\ session.total_work_minutes = c["Work"] * WorkMinutes
                         /\ session.break_sessions =
                                c["ShortBreak"] + c["LongBreak"]
                         /\ session.total_break_minutes =
                                c["ShortBreak"] * ShortBreakMinutes
                                    + c["LongBreak"] * LongBreakMinutes
                ELSE \A p \in Phases : c[p] = 0

C11_Witness ==
    /\ StartedEmpty
    /\ today = 2
    /\ completions[1]["Work"] = 2
    /\ completions[1]["ShortBreak"] = 2
    /\ completions[2]["Work"] = 2
    /\ completions[2]["ShortBreak"] = 1
    /\ completions[2]["LongBreak"] = 1

\* the Timer on which a pass of the loop calls update_alarm_state: the alarm
\* is raised first if update finds the phase used up in this pass
BeforeAlarmUpdate ==
    IF NaturalDue THEN play_alarm(timer) ELSE timer

\* C12: in every pass of the loop update_alarm_state returns true iff the
\* alarm is active and now < alarm_end_time, leaving the alarm as it is;
\* with the alarm active and now >= alarm_end_time it clears alarm_active
\* and alarm_end_time and returns false; with the alarm inactive it returns
\* false.
C12_AlarmState ==
    [][Frame =>
          LET pre == BeforeAlarmUpdate
              active == pre.alarm_active
          IN  /\ alarm_seen' <=> (active /\ now < Unwrap(pre.alarm_end_time))
              /\ (active /\ now < Unwrap(pre.alarm_end_time)) =>
                    /\ timer'.alarm_active
                    /\ timer'.alarm_end_time = pre.alarm_end_time
              /\ (active /\ now >= Unwrap(pre.alarm_end_time)) =>
                    /\ ~alarm_seen'
                    /\ ~timer'.alarm_active
                    /\ timer'.alarm_end_time = None
              /\ ~active =>
                    /\ ~alarm_seen'
                    /\ ~timer'.alarm_active]_vars

\* one completion at time 0; the alarm was seen active, and the pass at
\* now = alarm_end_time has cleared it
C12_Witness ==
    /\ pc = "poll"
    /\ now = AlarmDurationSeconds
    /\ completions[1]["Work"] = 1
    /\ completions[1]["ShortBreak"] = 0
    /\ last_volume_call = "restore"
    /\ ~alarm_seen
    /\ ~timer.alarm_active
    /\ timer.alarm_end_time = None

\* C13 as stated: alarm_active is true only at times before alarm_end_time.
C13_ActiveOnlyBeforeEnd ==
    timer.alarm_active =>
        (IsSome(timer.alarm_end_time) /\ now < Unwrap(timer.alarm_end_time))

\* C13 as amended: while alarm_active is true alarm_end_time is set and the
\* time is not before the trigger time (alarm_end_time minus the alarm
\* duration); the flag is cleared by the first update_alarm_state call at or
\* after alarm_end_time, so right after every such call alarm_active implies
\* now < alarm_end_time, while between two calls it can stay true past
\* alarm_end_time.
C13_ActiveUntilPolled ==
    /\ [](timer.alarm_active =>
            /\ IsSome(timer.alarm_end_time)
            /\ now >= Unwrap(timer.alarm_end_time) - timer.alarm_duration_seconds)
    /\ [][Frame =>
            (timer'.alarm_active => now' < Unwrap(timer'.alarm_end_time))]_vars

\* the flag is still set although alarm_end_time has passed
C13_Witness ==
    /\ pc = "poll"
    /\ timer.alarm_active
    /\ now >= Unwrap(timer.alarm_end_time)

\* C14 as stated: pomodoro_count changes only by 1, upwards, in a step that
\* completes a Work phase.
C14_CountOnlyByWorkCompletion ==
    [][timer'.pomodoro_count # timer.pomodoro_count =>
          /\ timer.phase = "Work"
          /\ CompletionStep
          /\ timer'.pomodoro_count = timer.pomodoro_count + 1]_vars

\* the session of the current date in the loaded file, if there is one
LoadedToday ==
    /\ config.save_pomodoro_data
    /\ HasDate(todo.pomodoro_sessions, today)

\* C14 as amended: pomodoro_count changes only by 1, upwards, in a step that
\* completes a Work phase, or in load_daily_sessions, which sets it to the
\* work_sessions of the loaded session of the current date when there is
\* one; break completions, reset, toggle_start_pause and task selection
\* leave it alone, and it never decreases.
C14_CountByWorkOrLoad ==
    [][/\ timer'.pomodoro_count # timer.pomodoro_count =>
            \/ /\ timer.phase = "Work"
               /\ CompletionStep
               /\ timer'.pomodoro_count = timer.pomodoro_count + 1
            \/ Startup /\ LoadedToday
       /\ (Startup /\ LoadedToday) =>
            timer'.pomodoro_count =
                todo.pomodoro_sessions[
                    FindDate(todo.pomodoro_sessions, today)].work_sessions
       /\ timer'.pomodoro_count >= timer.pomodoro_count]_vars

\* a count of 1 was loaded; a Work phase and a break were completed since
C14_Witness ==
    /\ todo.pomodoro_sessions = << HistorySession(1, 1) >>
    /\ completions[1]["Work"] = 1
    /\ completions[1]["ShortBreak"] = 1
    /\ timer.pomodoro_count = 2
    /\ timer.state = "Paused"

\* C15: toggle_start_pause (the timer panel's ' ') moves Stopped and Paused
\* to Running, recording the current time as last_tick, and Running to
\* Paused, clearing last_tick; it changes neither time_remaining nor phase;
\* a pass of the loop while Paused subtracts nothing, so after a resume only
\* the time since the resume is counted.
C15_TogglePreservesRemaining ==
    [][/\ KeySpaceTimer =>
            /\ timer.state \in {"Stopped", "Paused"} =>
                  /\ timer'.state = "Running"
                  /\ timer'.last_tick = Some(now)
            /\ timer.state = "Running" =>
                  /\ timer'.state = "Paused"
                  /\ timer'.last_tick = None
            /\ timer'.time_remaining = timer.time_remaining
            /\ timer'.phase = timer.phase
            /\ timer'.pomodoro_count = timer.pomodoro_count
       /\ (Frame /\ timer.state = "Paused") =>
            /\ timer'.state = "Paused"
            /\ timer'.time_remaining = timer.time_remaining
            /\ timer'.last_tick = None]_vars

\* Work ran for one TimeStep, was paused for longer than the rest of the
\* phase and has just been resumed with the rest still remaining
C15_Witness ==
    /\ pc = "tick"
    /\ now = WorkMinutes * SecsPerMinute + TimeStep
    /\ timer.state = "Running"
    /\ timer.phase = "Work"
    /\ timer.last_tick = Some(now)
    /\ timer.time_remaining = WorkMinutes * SecsPerMinute - TimeStep
    /\ \A p \in Phases : completions[1][p] = 0

\* the duration the configuration gives to a phase, in seconds
ConfiguredDuration(p) ==
    CASE p = "Work" -> WorkMinutes * SecsPerMinute
      [] p = "ShortBreak" -> ShortBreakMinutes * SecsPerMinute
      [] p = "LongBreak" -> LongBreakMinutes * SecsPerMinute

\* C16: reset (the timer panel's 'r'), from any state, sets the state to
\* Stopped and time_remaining to the configured duration of the current
\* phase, and leaves phase, pomodoro_count, daily_sessions,
\* selected_todo_index and work_completed_flag unchanged.
C16_ResetFrame ==
    [][KeyReset =>
          /\ timer'.state = "Stopped"
          /\ timer'.time_remaining = ConfiguredDuration(timer.phase)
          /\ timer'.phase = timer.phase
          /\ timer'.pomodoro_count = timer.pomodoro_count
          /\ timer'.daily_sessions = timer.daily_sessions
          /\ timer'.selected_todo_index = timer.selected_todo_index
          /\ timer'.work_completed_flag = timer.work_completed_flag]_vars

\* reset was applied between a Work phase running out with a task selected
\* and the pass of the loop that credits it
C16_Witness ==
    /\ pc = "tick"
    /\ timer.state = "Stopped"
    /\ timer.last_tick = None
    /\ timer.phase = "ShortBreak"
    /\ timer.time_remaining = ConfiguredDuration("ShortBreak")
    /\ timer.work_completed_flag
    /\ IsSome(timer.selected_todo_index)
    /\ timer.pomodoro_count = 1

\* what update makes of the timer when it is Running and finds exactly the
\* remaining time elapsed: a natural completion of the current phase
NaturalCompletion(t) ==
    update([t EXCEPT !.state = "Running",
                     !.last_tick = Some(now - t.time_remaining)])

\* C17: skip_phase (the timer panel's 'S'), from any state and any remaining
\* time, leaves the phase, pomodoro_count, daily_sessions,
\* work_completed_flag, alarm, time_remaining and state that a natural
\* completion of the current phase by update would leave.
C17_SkipLikeNaturalCompletion ==
    [][KeySkip =>
          LET natural == NaturalCompletion(timer)
          IN  /\ timer'.phase = natural.phase
              /\ timer'.pomodoro_count = natural.pomodoro_count
              /\ timer'.daily_sessions = natural.daily_sessions
              /\ timer'.work_completed_flag = natural.work_completed_flag
              /\ timer'.alarm_active = natural.alarm_active
              /\ timer'.alarm_end_time = natural.alarm_end_time
              /\ timer'.time_remaining = natural.time_remaining
              /\ timer'.state = natural.state
              /\ timer'.selected_todo_index = natural.selected_todo_index
              /\ timer'.current_session_start =
                    natural.current_session_start]_vars

\* a Work phase with a task selected was skipped half way through
C17_Witness ==
    /\ pc = "tick"
    /\ now = TimeStep
    /\ timer.phase = "ShortBreak"
    /\ timer.state = "Stopped"
    /\ timer.work_completed_flag
    /\ timer.alarm_end_time = Some(now + AlarmDurationSeconds)
    /\ completions[1]["Work"] = 1

\* the order in which the claim says the modes follow one another
ModeOrder == << "TrackList", "Random", "Repeat", "CurrentOnly" >>

ModeAfter(mode) ==
    LET k == CHOOSE j \in 1..Len(ModeOrder) : ModeOrder[j] = mode
    IN  ModeOrder[(k % Len(ModeOrder)) + 1]

\* C18: cycle_playback_mode (the music panel's 'm') moves the mode one place
\* along TrackList, Random, Repeat, CurrentOnly, TrackList and changes
\* nothing else of the player; four applications of PlaybackMode::next
\* give the mode they started from, and fewer do not.
C18_ModeCycle ==
    /\ [](LET m0 == track_list.playback_mode
              m1 == playback_mode_next(m0)
              m2 == playback_mode_next(m1)
              m3 == playback_mode_next(m2)
              m4 == playback_mode_next(m3)
          IN  m4 = m0 /\ m1 # m0 /\ m2 # m0 /\ m3 # m0)
    /\ [][KeyMode =>
            /\ track_list'.playback_mode = ModeAfter(track_list.playback_mode)
            /\ track_list' =
                  [track_list EXCEPT !.playback_mode = track_list'.playback_mode]
            /\ UNCHANGED << sink, decoding, disk, play_status >>]_vars

\* the mode was cycled to CurrentOnly while a track plays from the sink
C18_Witness ==
    /\ pc = "tick"
    /\ track_list.playback_mode = "CurrentOnly"
    /\ track_list.is_playing
    /\ play_status = "in_sink"
    /\ sink.queue # << >>

\* play_track(k) would start track k: the index is in the library, its file
\* exists and a sink is, or can be, open
Startable(k) ==
    /\ k < Len(track_list.tracks)
    /\ track_list.tracks[k + 1] \in disk.present
    /\ track_list.sink \/ disk.audio_device

\* C19: toggle_play_pause (the music panel's ' ') pauses the sink of a
\* playing player and resumes that of a paused one, keeping current_track;
\* on a stopped player it starts the track current_track names if it is
\* set, else the selected one, and does nothing if that track cannot be
\* started.
C19_TogglePlayPause ==
    [][KeySpaceMusic =>
          LET playing == track_list.is_playing /\ ~track_list.is_paused
              paused == track_list.is_paused
              target == IF IsSome(track_list.current_track)
                        THEN Unwrap(track_list.current_track)
                        ELSE track_list.selected_index
          IN  /\ playing =>
                    /\ track_list' = [track_list EXCEPT !.is_paused = TRUE]
                    /\ sink' = [sink EXCEPT !.paused = TRUE]
              /\ paused =>
                    /\ track_list' = [track_list EXCEPT !.is_paused = FALSE]
                    /\ sink' = [sink EXCEPT !.paused = FALSE]
              /\ (~playing /\ ~paused /\ Startable(target)) => Started(target)
              /\ (~playing /\ ~paused /\ ~Startable(target)) =>
                    UNCHANGED << track_list, decoding >>]_vars

\* the last track ended in TrackList mode, which stopped the player; the
\* toggle has started that track again although the first one is selected
C19_Witness ==
    /\ pc = "tick"
    /\ track_list.playback_mode = "TrackList"
    /\ last_advance = Some([from |-> Some(MaxTracks - 1), natural |-> TRUE])
    /\ track_list.selected_index = 0
    /\ track_list.current_track = Some(MaxTracks - 1)
    /\ track_list.is_playing
    /\ play_status = "decoding"

\* index k is in the library but the file of its track is not on disk
FileMissing(k) ==
    /\ k < Len(track_list.tracks)
    /\ track_list.tracks[k + 1] \notin disk.present

\* C20: play_track with an index outside the library or with a track whose
\* file does not exist changes nothing: in every reachable state it returns
\* the player, the sink and the decode threads as they are, and Enter on a
\* selected track without file, 'n' towards one and an auto-advance in
\* TrackList mode towards one leave track_list, sink and decoding unchanged.
C20_PlayMissingIsNoOp ==
    /\ [](\A index \in 0..(MaxTracks + 1) :
            (index >= Len(track_list.tracks) \/ FileMissing(index))
                => play_track(Music, index) = Music)
    /\ [][/\ (KeyEnter /\ FileMissing(track_list.selected_index)) =>
                 UNCHANGED << track_list, sink, decoding, play_status >>
          /\ (KeyNext /\ IsSome(track_list.current_track)
                 /\ FileMissing((Unwrap(track_list.current_track) + 1)
                                   % Len(track_list.tracks))) =>
                 UNCHANGED << track_list, sink, decoding, play_status >>
          /\ (AutoAdvanceStep /\ track_list.playback_mode = "TrackList"
                 /\ IsSome(track_list.current_track)
                 /\ FileMissing(Unwrap(track_list.current_track) + 1)) =>
                 UNCHANGED << track_list, sink, decoding, play_status >>]_vars

\* the first track ended, the file of the second one is gone, and the
\* auto-advance towards it has left the player as it was
C20_Witness ==
    /\ pc = "poll"
    /\ track_list.playback_mode = "TrackList"
    /\ last_advance = Some([from |-> Some(0), natural |-> TRUE])
    /\ FileMissing(1)
    /\ track_list.current_track = Some(0)
    /\ track_list.is_playing
    /\ play_status = "ended"

\* the decode thread of the current track ended without handing audio over
PlayFailed == play_status = "failed" /\ IsSome(track_list.current_track)

\* after the step, a new decode thread works on the track that was current
RetriesCurrent ==
    \E j \in 1..Len(decoding') :
        decoding'[j] = [track |-> track_list.tracks[
                                      Unwrap(track_list.current_track) + 1],
                        current |-> TRUE]

\* C21: after the play attempt of a track has failed, no pass of the loop
\* starts that same track again by itself, in any playback mode.
C21_NoAutomaticRetry ==
    [][(Frame /\ PlayFailed) => ~RetriesCurrent]_vars

\* C22: the file written for a collection of sessions loads back as that
\* collection, field for field: Todo::new on the file save_to_file writes for
\* a collection leaves that collection in pomodoro_sessions, and the file
\* written on quit loads back as the sessions that were saved.
C22_RoundTrip ==
    [][/\ LoadFile =>
            \A ss \in Collections :
                file = save_to_file([pomodoro_sessions |-> ss])
                    => todo'.pomodoro_sessions = ss
       /\ (KeyQuit /\ config.save_pomodoro_data) =>
            load_from_file(todo', file').pomodoro_sessions
                = timer.daily_sessions]_vars

\* the blocks of the Pomodoro section of a file: each ends with an empty line
RECURSIVE SplitBlocks(_, _)
SplitBlocks(lines, block) ==
    IF lines = << >> THEN << >>
    ELSE IF Head(lines) = << >>
    THEN << Append(block, << >>) >> \o SplitBlocks(Tail(lines), << >>)
    ELSE SplitBlocks(Tail(lines), Append(block, Head(lines)))

FileBlocks(content) ==
    IF starts_with(content, SectionHead)
    THEN SplitBlocks(SkipChars(content, Len(SectionHead)), << >>)
    ELSE << >>

\* the block is what save_to_file writes for a session
WellFormed(block) == \E s \in FileSessions : block = session_lines(s)

SessionOf(block) == CHOOSE s \in FileSessions : block = session_lines(s)

\* C23: Todo::new on a file with malformed blocks (a date or a number that
\* does not parse) loads one session per well-formed block, in the order of
\* the file and with the block's own values, and nothing for a malformed
\* block.
C23_MalformedBlockSkipped ==
    [][LoadFile =>
          LET good == SelectSeq(FileBlocks(file), WellFormed)
              loaded == todo'.pomodoro_sessions
          IN  /\ Len(loaded) = Len(good)
              /\ \A k \in 1..Len(good) :
                    ~Contains(SessionOf(good[k]).tasks_worked_on, LongTaskName)
                        => loaded[k] = SessionOf(good[k])]_vars

AlarmFields(t) == << t.alarm_active, t.alarm_end_time >>

\* C24: only update_alarm_state, called by a pass of the loop at or after
\* alarm_end_time, ends an alarm; space, reset, 's' and the panel keys leave
\* alarm_active and alarm_end_time as they are, and so does Timer::stop; a
\* phase completion arms the alarm with the end time now + duration, which
\* is never earlier than the end time it replaces.
C24_OnlyPollEndsAlarm ==
    /\ [](AlarmFields(stop_timer(timer)) = AlarmFields(timer))
    /\ [][/\ (timer.alarm_active /\ ~timer'.alarm_active) =>
                /\ Frame
                /\ IsSome(timer.alarm_end_time)
                /\ now >= Unwrap(timer.alarm_end_time)
          /\ (KeySpaceTimer \/ KeyReset \/ KeySelect \/ KeyH \/ KeyL) =>
                AlarmFields(timer') = AlarmFields(timer)
          /\ CompletionStep =>
                /\ timer'.alarm_active
                /\ timer'.alarm_end_time =
                       Some(now + timer.alarm_duration_seconds)
                /\ IsSome(timer.alarm_end_time) =>
                       Unwrap(timer'.alarm_end_time)
                           >= Unwrap(timer.alarm_end_time)]_vars

\* the timer was started and paused again while an alarm was sounding
C24_Witness ==
    /\ pc = "tick"
    /\ timer.state = "Paused"
    /\ timer.alarm_active
    /\ timer.alarm_end_time = Some(AlarmDurationSeconds)
    /\ now = TimeStep

\* C25: every phase completion makes an audible signal: the alarm sound if
\* the alarm file is found and decodes, the terminal bell in every other
\* case.
C25_AlarmAudible ==
    [][CompletionStep =>
          /\ alarm_signal' \in {"sound", "bell"}
          /\ alarm_signal' = "sound" <=> disk.alarm_file = "ok"]_vars

\* the entries a scan of the music folder gives: the files present, each
\* once, or the two placeholder entries when there is none
Rescanned(tracks) ==
    IF disk.folder /\ disk.present # {}
    THEN /\ { tracks[k] : k \in 1..Len(tracks) } = disk.present
         /\ Len(tracks) = Cardinality(disk.present)
    ELSE tracks = << NoPath, NoPath >>

\* C26: 'R' on the music panel, from any playback state, leaves the player
\* stopped (not playing, not paused, the sink emptied), the library
\* rescanned, selected_index at 0, current_track unset and playback_mode as
\* it was.
C26_RefreshLibrary ==
    [][KeyRefresh =>
          /\ ~track_list'.is_playing
          /\ ~track_list'.is_paused
          /\ sink'.queue = << >>
          /\ Rescanned(track_list'.tracks)
          /\ track_list'.selected_index = 0
          /\ track_list'.current_track = None
          /\ track_list'.playback_mode = track_list.playback_mode]_vars

\* a refresh after a file was removed during playback in Random mode
C26_Witness ==
    /\ pc = "tick"
    /\ Len(track_list.tracks) = MaxTracks - 1
    /\ track_list.playback_mode = "Random"
    /\ track_list.current_track = None
    /\ track_list.selected_index = 0
    /\ ~track_list.is_playing
    /\ play_status = "stopped"

\* the panel render draws in each quadrant
Panel(q) ==
    CASE q = "TopLeft" -> "timer"
      [] q = "TopRight" -> "summary"
      [] q = "BottomLeft" -> "todo"
      [] q = "BottomRight" -> "music"

\* the order the help text gives for 'l'
HelpOrder == << "timer", "summary", "todo", "music" >>

HelpIndex(panel) == CHOOSE k \in 1..Len(HelpOrder) : HelpOrder[k] = panel

\* C27: 'l' moves the focus along timer, summary, todo, music and back to
\* timer, 'h' moves it along the same cycle backwards, and 'h' after 'l',
\* like 'l' after 'h', gives the panel back.
C27_PanelCycle ==
    /\ [](\A q \in Quadrants :
            /\ cycle_panels(cycle_panels(q, "l"), "h") = q
            /\ cycle_panels(cycle_panels(q, "h"), "l") = q)
    /\ [][/\ KeyL =>
                HelpIndex(Panel(app'.focused_quadrant))
                    = (HelpIndex(Panel(app.focused_quadrant)) % Len(HelpOrder)) + 1
          /\ KeyH =>
                HelpIndex(Panel(app.focused_quadrant))
                    = (HelpIndex(Panel(app'.focused_quadrant)) % Len(HelpOrder))
                          + 1]_vars

\* C29: last_tick is set only while the timer is Running: whenever it is
\* Stopped or Paused, also right after a phase was completed, last_tick is
\* None.
C29_LastTickOnlyRunning ==
    timer.state \in {"Stopped", "Paused"} => timer.last_tick = None

\* a phase was completed on date d in this run
CompletedOn(d) == \E p \in Phases : completions[d][p] > 0

C31_AbsentDirectoryTwoPlaceholders ==
    [][\A music_directory \in MusicFolders :
          KeyReloadConfig(music_directory)
              /\ ~FolderExists(disk, music_directory)
          => /\ FolderExists(disk', music_directory)
             /\ track_list'.music_folder = music_directory
             /\ track_list'.tracks = << NoPath, NoPath >>
             /\ pc' = "tick"]_vars

\* C31 as stated: the library after such a scan is a single sentinel entry
C31_AbsentDirectoryOneSentinel ==
    [][\A music_directory \in MusicFolders :
          KeyReloadConfig(music_directory)
              /\ ~FolderExists(disk, music_directory)
          => /\ FolderExists(disk', music_directory)
             /\ Len(track_list'.tracks) = 1
             /\ track_list'.tracks[1] = NoPath]_vars

\* the other directory was created by a scan and the placeholders are shown
C31_Witness ==
    /\ pc = "tick"
    /\ track_list.music_folder = 2
    /\ disk.other_folder
    /\ track_list.tracks = << NoPath, NoPath >>
    /\ disk.present # {}

\* C38: in every reachable state the library is non-empty, selected_index
\* is an index of it and current_track, when set, is an index of it
C38_IndicesInLibrary ==
    /\ Len(track_list.tracks) > 0
    /\ track_list.selected_index \in 0..(Len(track_list.tracks) - 1)
    /\ IsSome(track_list.current_track)
           => Unwrap(track_list.current_track)
                  \in 0..(Len(track_list.tracks) - 1)

\* a track of a library that a rescan made shorter is playing
C38_Witness ==
    /\ Len(track_list.tracks) < MaxTracks
    /\ track_list.tracks[1] # NoPath
    /\ track_list.current_track = Some(Len(track_list.tracks) - 1)
    /\ track_list.selected_index = Len(track_list.tracks) - 1
    /\ track_list.is_playing

\* the task the pending credit of a completed Work phase will go to
PendingTask ==
    IF /\ work_phase_just_completed(timer)
       /\ IsSome(timer.selected_todo_index)
       /\ Unwrap(timer.selected_todo_index) < Len(todo.items)
    THEN Some(todo.items[Unwrap(timer.selected_todo_index) + 1].task)
    ELSE None

\* C32: from the completion of a Work phase with a selected task until the
\* frame that credits it, no step changes the task the credit will go to,
\* and that frame adds the minutes to that task and to no other
C32_CreditToTaskAtCompletion ==
    [][IsSome(PendingTask)
       => IF credit_calls' # credit_calls
          THEN /\ Len(todo'.items) = Len(todo.items)
               /\ \A k \in 1..Len(todo.items) :
                     /\ todo'.items[k].task = todo.items[k].task
                     /\ todo'.items[k].focused_time =
                            IF todo.items[k].task = Unwrap(PendingTask)
                            THEN todo.items[k].focused_time
                                     + get_work_session_minutes(timer)
                            ELSE todo.items[k].focused_time
          ELSE PendingTask' = PendingTask]_vars

\* C33: whenever the latched alarm state is active and the music sink
\* exists, the sink's volume is the alarm volume
C33_DuckedWhileLatched ==
    was_alarm_active_last_update /\ track_list.sink => sink.volume = "alarm"

\* C34: whenever no alarm is active and the music sink exists, the sink's
\* volume is the configured default volume
C34_DefaultVolumeWithoutAlarm ==
    /\ ~was_alarm_active_last_update
    /\ ~timer.alarm_active
    /\ track_list.sink
    => sink.volume = "default"

\* C35: the sink holds audio that plays only while the track list reports
\* playing and not paused, and every source in the sink is of the track at
\* current_track
C35_AudibleOnlyWhilePlaying ==
    track_list.sink /\ sink.queue # << >>
    => /\ ~sink.paused => track_list.is_playing /\ ~track_list.is_paused
       /\ IsSome(track_list.current_track)
       /\ \A k \in 1..Len(sink.queue) :
             sink.queue[k].track
                 = track_list.tracks[Unwrap(track_list.current_track) + 1]

\* the track at index k has played to its end in TrackList mode and the
\* file of the track after it is gone
NextMissingAfter(k) ==
    /\ track_list.playback_mode = "TrackList"
    /\ play_status = "ended"
    /\ should_advance(Music)
    /\ track_list.current_track = Some(k)
    /\ k + 1 < Len(track_list.tracks)
    /\ FileMissing(k + 1)

\* C36: after a track ended in TrackList mode with the next track's file
\* missing, the passes of the loop eventually leave a later track as
\* current_track or the track list stopped, unless the user has started a
\* track in the meantime
C36_MissingNextResolved ==
    \A k \in 0..(MaxTracks - 2) :
        NextMissingAfter(k)
            ~> \/ ~track_list.is_playing
               \/ /\ IsSome(track_list.current_track)
                  /\ Unwrap(track_list.current_track) > k
               \/ play_status # "ended"

\* the instants at which an alarm raised within the modelled time ends
\* within the modelled time
AlarmEnds ==
    { e \in 0..MaxNow :
        \E k \in 0..MaxNow : e = k * TimeStep + AlarmDurationSeconds }

\* C37: after the loop has ducked the volume for an alarm that ends at e,
\* it eventually calls restore_volume and its latch is false again, unless
\* a later phase completion has raised an alarm that ends after e (or the
\* last Work phase the model counts has been reached)
C37_DuckEventuallyRestored ==
    \A e \in AlarmEnds :
        (volume_call = "duck" /\ timer.alarm_end_time = Some(e))
            ~> \/ volume_call = "restore" /\ ~was_alarm_active_last_update
               \/ /\ IsSome(timer.alarm_end_time)
                  /\ Unwrap(timer.alarm_end_time) > e
               \/ timer.pomodoro_count = MaxPomodoros

\* the volume was restored after an alarm had run its full time
C37_Witness ==
    /\ volume_call = "restore"
    /\ ~was_alarm_active_last_update
    /\ ~timer.alarm_active
    /\ now >= AlarmDurationSeconds
    /\ completions[today]["Work"] = 1
    /\ completions[today]["ShortBreak"] = 0

\* the work_sessions of the daily session of the current date, 0 without one
TodayWorkSessions ==
    IF HasDate(timer.daily_sessions, today)
    THEN timer.daily_sessions[FindDate(timer.daily_sessions, today)].work_sessions
    ELSE 0

\* C39: once load_daily_sessions has run at startup, pomodoro_count is the
\* work_sessions of the daily session of the current date (0 without one)
C39_CountIsTodaysWorkSessions ==
    pc \notin {"load", "start"} /\ config.save_pomodoro_data
        => timer.pomodoro_count = TodayWorkSessions

RECURSIVE SumWorkMinutes(_, _)
\* the total_work_minutes of the sessions of date d, added up
SumWorkMinutes(sessions, d) ==
    IF sessions = << >> THEN 0
    ELSE (IF Head(sessions).date = d THEN Head(sessions).total_work_minutes
          ELSE 0) + SumWorkMinutes(Tail(sessions), d)

get_today_minutes(td) == SumWorkMinutes(td.pomodoro_sessions, today)

\* C40: when a frame has been drawn, the minutes the summary panel reads
\* from the Todo are the total work minutes of the timer's daily session
\* of today
C40_SummaryShowsTimerMinutes ==
    pc = "poll"
        => get_today_minutes(todo)
               = IF HasDate(timer.daily_sessions, today)
                 THEN timer.daily_sessions[
                          FindDate(timer.daily_sessions, today)
                      ].total_work_minutes
                 ELSE 0

====
